---- MODULE Spec2Model ----
(***************************************************************************)
(* Model of monitor_logins.py: per-minute-of-week baseline statistics,     *)
(* anomaly classification of a measured series, and the streak-debounced   *)
(* alert loop.                                                             *)
(*                                                                         *)
(* Numbers.  A CSV file writes a reading as a decimal with up to six        *)
(* places; a row holds it as measurement_value, the whole number of         *)
(* 1/Scale it writes (300.5 is 300500000), which stands for the float64     *)
(* that read_csv makes of it.  Every computed quantity (mean, std, the      *)
(* bounds) is a float64, modelled bit for bit: each operation gives the     *)
(* exact result rounded to 53 bits, ties to even (see "float64" below).     *)
(* Timestamps are whole minutes counted from a Monday 00:00.  Positions in  *)
(* a table are 0-based as in the program; a table is a TLA+ sequence, so    *)
(* the row at position p is rows[p + 1].                                    *)
(***************************************************************************)
EXTENDS Integers, Sequences, FiniteSets, TLC

\* ------------------------------------------------------------- constants

Scale == 1000000

STD_DEV_THRESHOLD == 3
CONSECUTIVE_MINUTES_THRESHOLD == 10
BASELINE_ZERO_THRESHOLD == 200
\* 1e-6, written in units of 1/Scale
STD_DEV_EPSILON == 1

\* ---------------------------------------------------------------- bounds

\* most runs (maximal blocks of equal measured values) in a measured series
MaxRuns == 3

\* weeks of history in a baseline file
BaselineWeeks == 3

\* ----------------------------------------------------------- plain helpers

Max(a, b) == IF a >= b THEN a ELSE b

Abs(a) == IF a >= 0 THEN a ELSE 0 - a

\* ---------------------------------------------------------- whole numbers
\* Significands, their sums, products and roots leave the machine word, so
\* a whole number >= 0 is kept as its digits in base LimbBase = 2^LimbBits,
\* least significant first, no leading zero digit (zero has no digits).

LimbBits == 13

LimbBase == 8192

Digit(m, i) == IF 1 <= i /\ i <= Len(m) THEN m[i] ELSE 0

\* m without its leading zero digits
Strip(m) ==
    SubSeq(m, 1, Cardinality({i \in 1..Len(m) : \E j \in i..Len(m) : m[j] # 0}))

\* the digits of the machine integer x >= 0
MagOf(x) ==
    Strip(<<x % LimbBase, (x \div LimbBase) % LimbBase, x \div (LimbBase * LimbBase)>>)

\* Per-digit amounts s, each at most 2 * LimbBase - 2, brought below
\* LimbBase: digit i receives a carry when a digit below it overflows and
\* every digit in between is full.
CarryInto(s, i) ==
    IF \E j \in 1..(i - 1) :
           s[j] >= LimbBase /\ \A m \in (j + 1)..(i - 1) : s[m] = LimbBase - 1
    THEN 1 ELSE 0

Carried(s) ==
    Strip(SubSeq([i \in 1..(Len(s) + 1) |-> (Digit(s, i) + CarryInto(s, i)) % LimbBase],
                 1, Len(s) + 1))

MagAdd(a, b) ==
    Carried(SubSeq([i \in 1..Max(Len(a), Len(b)) |-> Digit(a, i) + Digit(b, i)],
                   1, Max(Len(a), Len(b))))

\* Per-digit differences d: digit i lends when a digit below it is negative
\* and every digit in between is zero.
BorrowFrom(d, i) ==
    IF \E j \in 1..(i - 1) : d[j] < 0 /\ \A m \in (j + 1)..(i - 1) : d[m] = 0
    THEN 1 ELSE 0

Borrowed(d) ==
    Strip(SubSeq([i \in 1..Len(d) |-> (d[i] - BorrowFrom(d, i)) % LimbBase], 1, Len(d)))

\* a - b for a >= b
MagSub(a, b) ==
    Borrowed(SubSeq([i \in 1..Len(a) |-> a[i] - Digit(b, i)], 1, Len(a)))

\* -1, 0 or 1 as a is below, equal to or above b
MagCmp(a, b) ==
    IF Len(a) # Len(b) THEN (IF Len(a) < Len(b) THEN -1 ELSE 1)
    ELSE IF a = b THEN 0
    ELSE LET i == CHOOSE i \in 1..Len(a) :
                      a[i] # b[i] /\ \A j \in (i + 1)..Len(a) : a[j] = b[j]
         IN  IF a[i] < b[i] THEN -1 ELSE 1

\* the sum of a[j] * b[k + 1 - j] over the digits j >= i of a that meet a
\* digit of b
RECURSIVE Convolve(_, _, _, _)
Convolve(a, b, k, i) ==
    IF i > Len(a) \/ i > k THEN 0
    ELSE a[i] * b[k + 1 - i] + Convolve(a, b, k, i + 1)

\* the digit amounts of raw, each below 2^31, with what exceeds a digit
\* moved one place up
Spill(raw) ==
    SubSeq([i \in 1..(Len(raw) + 1) |->
               (Digit(raw, i) % LimbBase) + (Digit(raw, i - 1) \div LimbBase)],
           1, Len(raw) + 1)

\* a * b; the shorter of the two has at most 32 digits
MagMul(a, b) ==
    IF a = <<>> \/ b = <<>> THEN <<>>
    ELSE Carried(Spill(Spill(
             SubSeq([k \in 1..(Len(a) + Len(b) - 1) |->
                        Convolve(a, b, k, Max(1, k + 1 - Len(b)))],
                    1, Len(a) + Len(b) - 1))))

\* the remainder of the digits i.. of a by the machine integer d,
\* 0 < d < 2^18
RECURSIVE DivRem(_, _, _)
DivRem(a, d, i) ==
    IF i > Len(a) THEN 0 ELSE (DivRem(a, d, i + 1) * LimbBase + a[i]) % d

\* quotient and remainder of a by the machine integer d, 0 < d < 2^18
DivSmall(a, d) ==
    [q |-> Strip(SubSeq([i \in 1..Len(a) |->
                            (DivRem(a, d, i + 1) * LimbBase + a[i]) \div d],
                        1, Len(a))),
     r |-> DivRem(a, d, 1)]

\* 2^k
Pow2(k) ==
    SubSeq([i \in 1..((k \div LimbBits) + 1) |->
               IF i = (k \div LimbBits) + 1 THEN 2 ^ (k % LimbBits) ELSE 0],
           1, (k \div LimbBits) + 1)

\* a * 2^k
ShiftLeft(a, k) == MagMul(a, Pow2(k))

\* a \div 2^k
ShiftRight(a, k) ==
    LET hi == SubSeq(a, (k \div LimbBits) + 1, Len(a))
        s  == k % LimbBits
    IN  IF k \div LimbBits >= Len(a) THEN <<>>
        ELSE Strip(SubSeq([i \in 1..Len(hi) |->
                              (hi[i] \div (2 ^ s))
                              + (Digit(hi, i + 1) % (2 ^ s)) * (2 ^ (LimbBits - s))],
                          1, Len(hi)))

\* the number of binary digits of a
BitLen(a) ==
    IF a = <<>> THEN 0
    ELSE LimbBits * (Len(a) - 1)
         + (CHOOSE n \in 1..LimbBits : 2 ^ (n - 1) <= a[Len(a)] /\ a[Len(a)] < 2 ^ n)

\* the number of trailing binary zeros of a > 0
TrailingZeros(a) ==
    LET j == CHOOSE j \in 1..Len(a) : a[j] # 0 /\ \A m \in 1..(j - 1) : a[m] = 0
    IN  LimbBits * (j - 1)
        + (CHOOSE n \in 0..(LimbBits - 1) : a[j] % (2 ^ n) = 0 /\ a[j] % (2 ^ (n + 1)) # 0)

\* The whole-number square root, SqrtDigitBits binary digits at a time: with
\* r the digits found above bit b + SqrtDigitBits, the next digit is the
\* largest d with (r + d * 2^b)^2 <= a.
SqrtDigitBits == 4

SqrtFits(a, r, b, d) ==
    LET c == MagAdd(r, ShiftLeft(MagOf(d), b)) IN MagCmp(MagMul(c, c), a) <= 0

SqrtDigit(a, r, b) ==
    CHOOSE d \in 0..(2 ^ SqrtDigitBits - 1) :
        SqrtFits(a, r, b, d) /\ (d < 2 ^ SqrtDigitBits - 1 => ~SqrtFits(a, r, b, d + 1))

RECURSIVE SqrtDigits(_, _, _)
SqrtDigits(a, r, b) ==
    IF b < 0 THEN r
    ELSE IF SqrtDigit(a, r, b) = 0 THEN SqrtDigits(a, r, b - SqrtDigitBits)
    ELSE SqrtDigits(a, MagAdd(r, ShiftLeft(MagOf(SqrtDigit(a, r, b)), b)),
                    b - SqrtDigitBits)

\* the largest r with r * r <= a
MagSqrt(a) ==
    SqrtDigits(a, <<>>, SqrtDigitBits * (BitLen(a) \div (2 * SqrtDigitBits)))

\* ---------------------------------------------------------------- float64
\* A float64 of the program is the number it holds: (-1)^neg * mag * 2^e with
\* mag odd and below 2^53, or zero (no digits, e = 0), so equal floats are
\* equal records.  The readings of a CSV file and what is computed from
\* them stay far inside the range of float64: no infinity, NaN or subnormal
\* arises, and the sign of a zero is never looked at.

SignificandBits == 53

\* digits kept beyond the significand before a quotient is rounded
GuardBits == 3

\* mag * 2^e with the trailing zeros of mag moved into e
TrimZeros(mag, e) ==
    IF mag = <<>> THEN [mag |-> <<>>, e |-> 0]
    ELSE [mag |-> ShiftRight(mag, TrailingZeros(mag)), e |-> e + TrailingZeros(mag)]

Float(neg, mag, e) ==
    [neg |-> neg /\ mag # <<>>, mag |-> TrimZeros(mag, e).mag, e |-> TrimZeros(mag, e).e]

\* Rounding to nearest, ties to even: the float64 nearest to
\* (-1)^neg * (mag + f) * 2^e, where 0 <= f < 1 and sticky says f > 0.
\* (A result with sticky set has more than SignificandBits binary digits.)
RoundToFloat(neg, mag, e, sticky) ==
    IF BitLen(mag) <= SignificandBits THEN Float(neg, mag, e)
    ELSE LET k    == BitLen(mag) - SignificandBits
             q    == ShiftRight(mag, k)
             rest == MagSub(mag, ShiftLeft(q, k))
             c    == MagCmp(rest, Pow2(k - 1))
             up   == c > 0 \/ (c = 0 /\ (sticky \/ q[1] % 2 = 1))
         IN  Float(neg, IF up THEN MagAdd(q, <<1>>) ELSE q, e + k)

FloatOfInt(x) == Float(x < 0, MagOf(Abs(x)), 0)

\* read_csv's float of the decimal that writes x / Scale: the digits as a
\* whole number, divided by the power of ten (Scale = 1000 * 1000, below
\* 2^20), the quotient taken to GuardBits digits beyond the significand
FloatOfDecimal(x) ==
    LET k  == SignificandBits + GuardBits + 20 - BitLen(MagOf(Abs(x)))
        d1 == DivSmall(ShiftLeft(MagOf(Abs(x)), k), 1000)
        d2 == DivSmall(d1.q, 1000)
    IN  IF x = 0 THEN FloatOfInt(0)
        ELSE RoundToFloat(x < 0, d2.q, 0 - k, d1.r # 0 \/ d2.r # 0)

FloatNeg(x) == [neg |-> ~x.neg /\ x.mag # <<>>, mag |-> x.mag, e |-> x.e]

\* the exact sum x + y as a signed whole number of 2^Min(x.e, y.e)
ExactSum(x, y) ==
    LET e == IF x.e <= y.e THEN x.e ELSE y.e
        a == ShiftLeft(x.mag, x.e - e)
        b == ShiftLeft(y.mag, y.e - e)
    IN  IF x.neg = y.neg THEN [neg |-> x.neg, mag |-> MagAdd(a, b), e |-> e]
        ELSE IF MagCmp(a, b) >= 0 THEN [neg |-> x.neg, mag |-> MagSub(a, b), e |-> e]
        ELSE [neg |-> y.neg, mag |-> MagSub(b, a), e |-> e]

\* float +
FloatAdd(x, y) ==
    IF x.mag = <<>> THEN y
    ELSE IF y.mag = <<>> THEN x
    ELSE RoundToFloat(ExactSum(x, y).neg, ExactSum(x, y).mag, ExactSum(x, y).e, FALSE)

\* float -
FloatSub(x, y) == FloatAdd(x, FloatNeg(y))

\* float *
FloatMul(x, y) ==
    IF x.mag = <<>> \/ y.mag = <<>> THEN FloatOfInt(0)
    ELSE RoundToFloat(x.neg # y.neg, MagMul(x.mag, y.mag), x.e + y.e, FALSE)

\* float / by a count d, 0 < d < 2^18, the quotient taken to GuardBits
\* digits beyond the significand
FloatDivInt(x, d) ==
    LET k  == SignificandBits + GuardBits + 18 - BitLen(x.mag)
        dv == DivSmall(ShiftLeft(x.mag, k), d)
    IN  IF x.mag = <<>> THEN x
        ELSE RoundToFloat(x.neg, dv.q, x.e - k, dv.r # 0)

\* sqrt of a float x >= 0: the root of x.mag * 2^k, k chosen to make the
\* exponent even and the root GuardBits digits longer than a significand
FloatSqrt(x) ==
    LET k0   == 2 * (SignificandBits + GuardBits) - BitLen(x.mag)
        k    == k0 + ((x.e - k0) % 2)
        a    == ShiftLeft(x.mag, k)
        root == MagSqrt(a)
    IN  IF x.mag = <<>> THEN x
        ELSE RoundToFloat(FALSE, root, (x.e - k) \div 2, MagMul(root, root) # a)

\* float <
FloatLess(x, y) ==
    LET diff == ExactSum(x, FloatNeg(y)) IN diff.neg /\ diff.mag # <<>>

\* np.maximum
FloatMax(x, y) == IF FloatLess(x, y) THEN y ELSE x

\* a table that is absent (Python's None), and one that is present
None == [isNone |-> TRUE, rows |-> <<>>]

Frame(rows) == [isNone |-> FALSE, rows |-> rows]

\* ------------------------------------------------------ minute of the week

\* index.dayofweek * 24 * 60 + index.hour * 60 + index.minute
MinuteOfWeek(t) ==
    ((t \div 1440) % 7) * 24 * 60 + ((t % 1440) \div 60) * 60 + (t % 60)

\* ------------------------------------------------- calculate_baseline_stats

\* the measurement values (floats) of the rows of one minute-of-week group,
\* in file order
GroupValues(rows, b) ==
    LET keep(r) == MinuteOfWeek(r.time) = b
    IN  [q \in 1..Len(SelectSeq(rows, keep)) |->
            FloatOfDecimal(SelectSeq(rows, keep)[q].measurement_value)]

\* agg 'mean' (group_mean of pandas): the values are added up in file order
\* with Kahan's compensation, and the sum is divided by the count
RECURSIVE KahanSum(_, _, _, _)
KahanSum(vals, i, sumx, compensation) ==
    IF i > Len(vals) THEN sumx
    ELSE LET y == FloatSub(vals[i], compensation)
             t == FloatAdd(sumx, y)
         IN  KahanSum(vals, i + 1, t, FloatSub(FloatSub(t, sumx), y))

GroupMean(vals) ==
    FloatDivInt(KahanSum(vals, 1, FloatOfInt(0), FloatOfInt(0)), Len(vals))

\* agg 'std' (group_var of pandas, ddof = 1): Welford's running mean and sum
\* of squared differences, in file order
RECURSIVE Welford(_, _, _, _)
Welford(vals, i, mean, ssqdm) ==
    IF i > Len(vals) THEN ssqdm
    ELSE LET newmean == FloatAdd(mean, FloatDivInt(FloatSub(vals[i], mean), i))
         IN  Welford(vals, i + 1, newmean,
                     FloatAdd(ssqdm, FloatMul(FloatSub(vals[i], newmean),
                                              FloatSub(vals[i], mean))))

\* ... followed by the root, and by fillna(0): a single-sample group has no
\* standard deviation (NaN) and gets 0
GroupStd(vals) ==
    IF Len(vals) = 1 THEN FloatOfInt(0)
    ELSE FloatSqrt(FloatDivInt(Welford(vals, 1, FloatOfInt(0), FloatOfInt(0)),
                               Len(vals) - 1))

\* groupby('minute_of_week').agg(['mean', 'std']): one row per bucket that
\* occurs in the baseline rows, none for the others
BaselineTable(rows) ==
    {[minute_of_week |-> b,
      mean |-> GroupMean(GroupValues(rows, b)),
      std  |-> GroupStd(GroupValues(rows, b))] :
        b \in {MinuteOfWeek(rows[p].time) : p \in 1..Len(rows)}}

\* the absent statistics table, and a present one
NoStats == [isNone |-> TRUE, table |-> {}]

Stats(table) == [isNone |-> FALSE, table |-> table]

calculate_baseline_stats(baseline) ==
    IF baseline.isNone THEN NoStats
    ELSE Stats(BaselineTable(baseline.rows))

\* ---------------------------------------------------------- detect_anomalies

\* merge(how='left') on minute_of_week, then fillna(0) on mean and std
HasBucket(table, b) == \E s \in table : s.minute_of_week = b

BucketRow(table, b) == CHOOSE s \in table : s.minute_of_week = b

MergedMean(table, b) ==
    IF HasBucket(table, b) THEN BucketRow(table, b).mean ELSE FloatOfInt(0)

MergedStd(table, b) ==
    IF HasBucket(table, b) THEN BucketRow(table, b).std ELSE FloatOfInt(0)

UpperBound(mean, std) ==
    FloatAdd(mean, FloatMul(FloatOfInt(STD_DEV_THRESHOLD), std))

LowerBound(mean, std) ==
    FloatMax(FloatOfInt(0),
             FloatSub(mean, FloatMul(FloatOfInt(STD_DEV_THRESHOLD), std)))

\* the comparisons of the measurement_value column with the bound columns
BelowLower(value, lower_bound) == FloatLess(FloatOfDecimal(value), lower_bound)

AboveUpper(value, upper_bound) == FloatLess(upper_bound, FloatOfDecimal(value))

\* faulty variant: the guard on std is missing
DeviationAnomalyNoGuard(below, above, std) == below \/ above

DeviationAnomaly(below, above, std) ==
    /\ below \/ above
    /\ FloatLess(FloatOfDecimal(STD_DEV_EPSILON), std)

ZeroAnomaly(value, mean) ==
    /\ value = 0
    /\ ~FloatLess(mean, FloatOfInt(BASELINE_ZERO_THRESHOLD))

\* faulty variant: the deviation types are assigned without the test for 'Normal'
AnomalyTypeOverwritesZero(zero_anomaly, deviation_anomaly, below, above) ==
    LET t1 == IF zero_anomaly THEN "Zero" ELSE "Normal"
        t2 == IF deviation_anomaly /\ below THEN "Low" ELSE t1
        t3 == IF deviation_anomaly /\ above THEN "High" ELSE t2
    IN  t3

\* the three .loc assignments over the default 'Normal', in program order
AnomalyType(zero_anomaly, deviation_anomaly, below, above) ==
    LET t0 == "Normal"
        t1 == IF zero_anomaly THEN "Zero" ELSE t0
        t2 == IF deviation_anomaly /\ t1 = "Normal" /\ below THEN "Low" ELSE t1
        t3 == IF deviation_anomaly /\ t2 = "Normal" /\ above THEN "High" ELSE t2
    IN  t3

IsAnomaly(deviation_anomaly, zero_anomaly) == deviation_anomaly \/ zero_anomaly

\* one row of merged_df: the columns in the order the program computes them
Verdict(r, table) ==
    LET b     == MinuteOfWeek(r.time)
        m     == MergedMean(table, b)
        s     == MergedStd(table, b)
        upper == UpperBound(m, s)
        lower == LowerBound(m, s)
        below == BelowLower(r.measurement_value, lower)
        above == AboveUpper(r.measurement_value, upper)
        dev   == DeviationAnomaly(below, above, s)
        zero  == ZeroAnomaly(r.measurement_value, m)
    IN  [time              |-> r.time,
         measurement_value |-> r.measurement_value,
         minute_of_week    |-> b,
         mean              |-> m,
         std               |-> s,
         upper_bound       |-> upper,
         lower_bound       |-> lower,
         is_anomaly        |-> IsAnomaly(dev, zero),
         anomaly_type      |-> AnomalyType(zero, dev, below, above)]

detect_anomalies(measured, stats) ==
    IF measured.isNone \/ stats.isNone THEN None
    ELSE Frame([p \in 1..Len(measured.rows) |->
                   Verdict(measured.rows[p], stats.table)])

\* --------------------------------------------------------- monitor_and_alert

NoTime == -1

NoType == "None"

\* anomalies_df.index.get_loc(t).  On the sorted index it is the position of t
\* when t occurs once; when t occurs several times it is a slice, and the
\* subtraction on the next line raises, which the enclosing try catches.
GetLocIsPosition(rows, t) ==
    Cardinality({p \in 1..Len(rows) : rows[p].time = t}) = 1

GetLoc(rows, t) == (CHOOSE p \in 1..Len(rows) : rows[p].time = t) - 1

\* faulty variant: one position too far back
BackPosOffByOne(current_pos) == Max(0, current_pos - CONSECUTIVE_MINUTES_THRESHOLD)

\* max(0, current_pos - (CONSECUTIVE_MINUTES_THRESHOLD - 1))
BackPos(current_pos) == Max(0, current_pos - (CONSECUTIVE_MINUTES_THRESHOLD - 1))

\* faulty variant: the start does not look at alert_active
ShouldStartIgnoresActive(streak, active) ==
    streak >= CONSECUTIVE_MINUTES_THRESHOLD

\* faulty variant: > for >=
ShouldStartAboveThreshold(streak, active) ==
    streak > CONSECUTIVE_MINUTES_THRESHOLD /\ ~active

ShouldStart(streak, active) ==
    streak >= CONSECUTIVE_MINUTES_THRESHOLD /\ ~active

ShouldResolve(streak, active) ==
    streak >= CONSECUTIVE_MINUTES_THRESHOLD /\ active

\* the streak counters after a row
AnomalyStreakAfter(is_anomaly_now, streak) ==
    IF is_anomaly_now THEN streak + 1
    ELSE IF streak > 0 THEN 0 ELSE streak

\* faulty variant: an anomalous row leaves normal_streak alone
NormalStreakNoReset(is_anomaly_now, streak) ==
    IF is_anomaly_now THEN streak ELSE streak + 1

NormalStreakAfter(is_anomaly_now, streak) ==
    IF is_anomaly_now THEN 0 ELSE streak + 1

\* the printed reports, as records
AlertStarted(row, start, type) ==
    [kind |-> "AlertStarted", detected_at |-> row.time,
     estimate |-> start, start |-> start, type |-> type]

AlertResolved(row, resolve_time, start, type) ==
    [kind |-> "AlertResolved", detected_at |-> row.time,
     estimate |-> resolve_time, start |-> start, type |-> type]

AlertStillActive(start, type) ==
    [kind |-> "AlertStillActive", detected_at |-> NoTime,
     estimate |-> NoTime, start |-> start, type |-> type]

ErrorReport(kind, row) ==
    [kind |-> kind, detected_at |-> row.time,
     estimate |-> NoTime, start |-> NoTime, type |-> NoType]

\* The alert part of the loop's locals, with the reports printed so far.
AlertState(active, start, type, reports) ==
    [alert_active |-> active, alert_start_timestamp |-> start,
     initial_anomaly_type |-> type, events |-> reports]

\* the try block of the start branch, when get_loc gives a position
StartAlert(rows, row, reports) ==
    LET first == rows[BackPos(GetLoc(rows, row.time)) + 1]
    IN  AlertState(TRUE, first.time, first.anomaly_type,
                   Append(reports, AlertStarted(row, first.time, first.anomaly_type)))

\* faulty variant: the resolve does not clear the start time and type
ResolveAlertKeepsStart(rows, row, start, type, reports) ==
    LET resolve_time_estimate == rows[BackPos(GetLoc(rows, row.time)) + 1].time
    IN  AlertState(FALSE, start, type,
                   Append(reports,
                          AlertResolved(row, resolve_time_estimate, start, type)))

\* the try block of the resolve branch, when get_loc gives a position
ResolveAlert(rows, row, start, type, reports) ==
    LET resolve_time_estimate == rows[BackPos(GetLoc(rows, row.time)) + 1].time
    IN  AlertState(FALSE, NoTime, NoType,
                   Append(reports,
                          AlertResolved(row, resolve_time_estimate, start, type)))

\* faulty variant: the except block leaves the alert as it was
ResetAlertKeepsActive(kind, row, reports) ==
    AlertState(TRUE, NoTime, NoType, Append(reports, ErrorReport(kind, row)))

\* either except block: the error is printed and the alert is reset
ResetAlert(kind, row, reports) ==
    AlertState(FALSE, NoTime, NoType, Append(reports, ErrorReport(kind, row)))

\* what one row does to the alert, given the streak counters after the row
AlertAfter(rows, row, a, n, active, start, type, reports) ==
    IF row.is_anomaly /\ ShouldStart(a, active) THEN
        IF GetLocIsPosition(rows, row.time)
        THEN StartAlert(rows, row, reports)
        ELSE ResetAlert("StartError", row, reports)
    ELSE IF ~row.is_anomaly /\ ShouldResolve(n, active) THEN
        IF GetLocIsPosition(rows, row.time)
        THEN ResolveAlert(rows, row, start, type, reports)
        ELSE ResetAlert("ResolveError", row, reports)
    ELSE AlertState(active, start, type, reports)

\* faulty variant: the warning is printed whether or not an alert is active
FinalReportsAlways(active, start, type, reports) ==
    Append(reports, AlertStillActive(start, type))

\* the reports once the loop is over
FinalReports(active, start, type, reports) ==
    IF active THEN Append(reports, AlertStillActive(start, type)) ELSE reports

\* ------------------------------------------------------------------ inputs

\* Tuesday 23:50, so that a series crosses the hour and the day
StartMinute == 1 * 1440 + 23 * 60 + 50

WeekMinutes == 7 * 24 * 60

\* longest measured series
MaxRows == MaxRuns * CONSECUTIVE_MINUTES_THRESHOLD

\* a sorted baseline file: `weeks` weeks of `span` consecutive minutes, the
\* samples of one minute being 295, 300, 305, 295, ... over the weeks
BaselineRows(weeks, span) ==
    [p \in 1..(weeks * span) |->
        [time |-> ((p - 1) \div span) * WeekMinutes + StartMinute + ((p - 1) % span),
         measurement_value |-> (295 + 5 * (((p - 1) \div span) % 3)) * Scale]]

FullBaseline == Frame(BaselineRows(BaselineWeeks, MaxRows))

BaselineFiles ==
    { None,                                  \* the file does not exist
      Frame(<<>>),                           \* a header and no rows
      Frame(BaselineRows(1, MaxRows)),       \* one sample per minute
      Frame(BaselineRows(BaselineWeeks, 5)), \* only the first five minutes
      FullBaseline }

MeasuredValues == {0, 300 * Scale, 400 * Scale}

RunLengths == {1, CONSECUTIVE_MINUTES_THRESHOLD - 1, CONSECUTIVE_MINUTES_THRESHOLD}

RunKinds == [value : MeasuredValues, len : RunLengths]

\* the run-length forms with k runs: neighbouring runs differ in value
RECURSIVE RunSeqs(_)
RunSeqs(k) ==
    IF k = 0 THEN {<<>>}
    ELSE UNION { {Append(s, r) :
                     r \in {x \in RunKinds :
                               s = <<>> \/ s[Len(s)].value # x.value}} :
                 s \in RunSeqs(k - 1) }

\* rows in the first d runs
RECURSIVE RowsUpTo(_, _)
RowsUpTo(runs, d) == IF d = 0 THEN 0 ELSE RowsUpTo(runs, d - 1) + runs[d].len

\* the run that holds row j (1-based)
RunOf(runs, j) == CHOOSE d \in 1..Len(runs) :
                      RowsUpTo(runs, d - 1) < j /\ j <= RowsUpTo(runs, d)

\* The sorted measured file of a run-length form: one row a minute, except
\* that with dup > 0 the last row of run dup carries the same timestamp as
\* the row before it (two readings logged in one minute).
MeasuredRows(runs, dup) ==
    [j \in 1..RowsUpTo(runs, Len(runs)) |->
        [time |-> BaselineWeeks * WeekMinutes + StartMinute + (j - 1)
                      - (IF dup > 0 /\ j >= RowsUpTo(runs, dup) THEN 1 ELSE 0),
         measurement_value |-> runs[RunOf(runs, j)].value]]

DupChoices(runs) == {0} \cup {d \in 1..Len(runs) : RowsUpTo(runs, d) >= 2}

MeasuredOfRuns(k) ==
    UNION { {Frame(MeasuredRows(runs, dup)) : dup \in DupChoices(runs)} :
            runs \in RunSeqs(k) }

\* the whole program is run on every baseline file with every measured
\* series of at most one run (or no measured file at all)
ProgramInputs ==
    BaselineFiles \X ({None} \cup MeasuredOfRuns(0) \cup MeasuredOfRuns(1))

\* monitor_and_alert is run on the verdicts of every measured series of up to
\* MaxRuns runs
MonitorSeries == UNION {MeasuredOfRuns(k) : k \in 0..MaxRuns}

\* ------------------------------------------------------------------- state

VARIABLES
    baseline_file,          \* what load_and_prepare_data yields for the baseline
    measured_file,          \* ... and for the measured series
    pc,                     \* where main() is
    baseline_df, baseline_stats, measured_df, anomalies_df,   \* main's locals
    alert_active, anomaly_streak, normal_streak,              \* the loop's locals
    alert_start_timestamp, initial_anomaly_type,
    pos,                    \* rows consumed by the loop
    events                  \* the reports printed so far

files == <<baseline_file, measured_file>>

tables == <<baseline_df, baseline_stats, measured_df, anomalies_df>>

alert == <<alert_active, anomaly_streak, normal_streak,
           alert_start_timestamp, initial_anomaly_type, pos, events>>

vars == <<files, pc, tables, alert>>

\* the loop's locals before monitor_and_alert has set them
AlertInit ==
    /\ alert_active = FALSE
    /\ anomaly_streak = 0
    /\ normal_streak = 0
    /\ alert_start_timestamp = NoTime
    /\ initial_anomaly_type = NoType
    /\ pos = 0
    /\ events = <<>>

Init ==
    /\ \E in \in ProgramInputs : baseline_file = in[1] /\ measured_file = in[2]
    /\ pc = "load_baseline"
    /\ baseline_df = None
    /\ baseline_stats = NoStats
    /\ measured_df = None
    /\ anomalies_df = None
    /\ AlertInit

\* ------------------------------------------------------------------ main()

\* baseline_df = load_and_prepare_data(baseline_file); None returns
LoadBaseline ==
    /\ pc = "load_baseline"
    /\ baseline_df' = baseline_file
    /\ pc' = IF baseline_file.isNone THEN "done" ELSE "calc_stats"
    /\ UNCHANGED <<files, baseline_stats, measured_df, anomalies_df, alert>>

\* baseline_stats = calculate_baseline_stats(baseline_df); None returns
CalcStats ==
    /\ pc = "calc_stats"
    /\ baseline_stats' = calculate_baseline_stats(baseline_df)
    /\ pc' = IF baseline_stats'.isNone THEN "done" ELSE "load_measured"
    /\ UNCHANGED <<files, baseline_df, measured_df, anomalies_df, alert>>

\* measured_df = load_and_prepare_data(measured_file); None returns
LoadMeasured ==
    /\ pc = "load_measured"
    /\ measured_df' = measured_file
    /\ pc' = IF measured_file.isNone THEN "done" ELSE "detect"
    /\ UNCHANGED <<files, baseline_df, baseline_stats, anomalies_df, alert>>

\* anomalies_df = detect_anomalies(measured_df, baseline_stats)
Detect ==
    /\ pc = "detect"
    /\ anomalies_df' = detect_anomalies(measured_df, baseline_stats)
    /\ pc' = "monitor"
    /\ UNCHANGED <<files, baseline_df, baseline_stats, measured_df, alert>>

\* monitor_and_alert up to its loop: the guard (a table that load_and_prepare_data
\* made always has a DatetimeIndex, so only None is refused), then the locals
MonitorEnter ==
    /\ pc = "monitor"
    /\ pc' = IF anomalies_df.isNone THEN "done" ELSE "loop"
    /\ UNCHANGED <<files, tables, alert>>

\* one iteration of the loop over anomalies_df.itertuples()
MonitorStep ==
    /\ pc = "loop"
    /\ pos < Len(anomalies_df.rows)
    /\ LET rows  == anomalies_df.rows
           row   == rows[pos + 1]
           a     == AnomalyStreakAfter(row.is_anomaly, anomaly_streak)
           n     == NormalStreakAfter(row.is_anomaly, normal_streak)
           after == AlertAfter(rows, row, a, n, alert_active,
                               alert_start_timestamp, initial_anomaly_type, events)
       IN  /\ anomaly_streak' = a
           /\ normal_streak' = n
           /\ alert_active' = after.alert_active
           /\ alert_start_timestamp' = after.alert_start_timestamp
           /\ initial_anomaly_type' = after.initial_anomaly_type
           /\ events' = after.events
    /\ pos' = pos + 1
    /\ UNCHANGED <<files, pc, tables>>

\* after the loop: the warning when an alert is still active
MonitorFinish ==
    /\ pc = "loop"
    /\ pos = Len(anomalies_df.rows)
    /\ events' = FinalReports(alert_active, alert_start_timestamp,
                              initial_anomaly_type, events)
    /\ pc' = "done"
    /\ UNCHANGED <<files, tables, alert_active, anomaly_streak, normal_streak,
                   alert_start_timestamp, initial_anomaly_type, pos>>

Next ==
    \/ LoadBaseline
    \/ CalcStats
    \/ LoadMeasured
    \/ Detect
    \/ MonitorEnter
    \/ MonitorStep
    \/ MonitorFinish

Spec == Init /\ [][Next]_vars

\* the statistics of the full baseline
FullStats == calculate_baseline_stats(FullBaseline)

\* the minutes a measured series can hold
MeasuredTimes ==
    {BaselineWeeks * WeekMinutes + StartMinute + j : j \in 0..(MaxRows - 1)}

\* detect_anomalies computes its columns row by row: the verdict rows of
\* every minute and reading of a measured series, against FullStats
MonitorVerdicts ==
    [t \in MeasuredTimes, v \in MeasuredValues |->
        Verdict([time |-> t, measurement_value |-> v], FullStats.table)]

\* detect_anomalies(m, FullStats), its rows taken from MonitorVerdicts
MonitorFrame(m) ==
    Frame([p \in 1..Len(m.rows) |->
              MonitorVerdicts[m.rows[p].time, m.rows[p].measurement_value]])

\* monitor_and_alert alone, called with the verdicts detect_anomalies gives a
\* measured series against the statistics of the full baseline
InitMonitor ==
    /\ baseline_file = None
    /\ measured_file = None
    /\ pc = "monitor"
    /\ baseline_df = None
    /\ baseline_stats = FullStats
    /\ measured_df = None
    /\ \E m \in MonitorSeries : anomalies_df = MonitorFrame(m)
    /\ AlertInit

NextMonitor ==
    \/ MonitorEnter
    \/ MonitorStep
    \/ MonitorFinish

SpecMonitor == InitMonitor /\ [][NextMonitor]_vars

\* detect_anomalies alone, on one measured row and a statistics table that
\* holds at most the row's bucket
ClassifyValues ==
    {0, 1, 200000, 3100000, 100 * Scale, 284 * Scale, 285 * Scale, 300 * Scale,
     315 * Scale, 316 * Scale, 400 * Scale,
     299999992, 300000009, 308106600, 308106602}

\* means and standard deviations as decimals; 1.1 with 0.3 and 1.0 with 0.7
\* have bounds that float rounding moves off 0.2 and 3.1
ClassifyMeans ==
    {FloatOfDecimal(x) :
        x \in {0, 1000000, 1100000, 100 * Scale, 199 * Scale, 200 * Scale, 300 * Scale}}

ClassifyStds ==
    {FloatOfDecimal(x) :
        x \in {0, STD_DEV_EPSILON, STD_DEV_EPSILON + 1, 300000, 700000,
               5 * Scale, 150 * Scale}}

\* sample groups: standard deviations below, between and above 1e-6 and
\* 2e-6, bounds next to the readings 308.1066 and 299.999992, a mean that
\* rounding puts just below 200, a standard deviation that rounding puts
\* just above 1e-6
ClassifyGroups ==
    {<<300 * Scale, 300 * Scale + 1>>,
     <<300 * Scale, 300 * Scale + 2>>,
     <<300 * Scale, 300 * Scale + 4>>,
     <<295 * Scale, 300 * Scale>>,
     <<300 * Scale, 300 * Scale, 300 * Scale, 300 * Scale + 6>>,
     <<51410000, 538810000, 9780000>>,
     <<200200000, 200200001, 200200002>>}

GroupFloats(g) == [q \in 1..Len(g) |-> FloatOfDecimal(g[q])]

ClassifyTables ==
    {{}}
    \cup {{[minute_of_week |-> MinuteOfWeek(StartMinute), mean |-> m, std |-> s]} :
             m \in ClassifyMeans, s \in ClassifyStds}
    \cup {{[minute_of_week |-> MinuteOfWeek(StartMinute),
            mean |-> GroupMean(GroupFloats(g)),
            std  |-> GroupStd(GroupFloats(g))]} : g \in ClassifyGroups}

InitClassify ==
    /\ baseline_file = None
    /\ measured_file = None
    /\ pc = "detect"
    /\ baseline_df = None
    /\ \E t \in ClassifyTables : baseline_stats = Stats(t)
    /\ \E v \in ClassifyValues, d \in {0, 1} :
          measured_df = Frame(<<[time |-> BaselineWeeks * WeekMinutes + StartMinute + d,
                                 measurement_value |-> v]>>)
    /\ anomalies_df = None
    /\ AlertInit

NextClassify == Detect

SpecClassify == InitClassify /\ [][NextClassify]_vars

\* ------------------------------------------------------ vocabulary of claims

Rows == anomalies_df.rows

\* the row the loop is about to process (position pos)
Current == Rows[pos + 1]

\* a step of the loop
LoopStep == pc = "loop" /\ pc' = "loop" /\ pos' = pos + 1

\* the number of consecutive rows ending at position p whose verdict is anom
RECURSIVE RunBack(_, _, _)
RunBack(rows, p, anom) ==
    IF p < 0 \/ rows[p + 1].is_anomaly # anom THEN 0
    ELSE 1 + RunBack(rows, p - 1, anom)

\* no other row carries the timestamp of the row at position p
TimeOnce(rows, p) ==
    \A q \in 1..Len(rows) : q # p + 1 => rows[q].time # rows[p + 1].time

\* a position whose row carries timestamp t
PosOf(rows, t) == CHOOSE p \in 0..(Len(rows) - 1) : rows[p + 1].time = t

\* this step prints exactly one report, of the given kind
Emits(kind) ==
    /\ Len(events') = Len(events) + 1
    /\ SubSeq(events', 1, Len(events)) = events
    /\ events'[Len(events')].kind = kind

LastReport == events'[Len(events')]

KindsOf(reports) == [k \in 1..Len(reports) |-> reports[k].kind]

\* the reports that open or close an alert
IsStartOrResolve(e) == e.kind \in {"AlertStarted", "AlertResolved"}

IsOpenOrClose(e) == e.kind \in {"AlertStarted", "AlertResolved", "ResolveError"}

\* a start, or a resolve, is due at the current row
StartDue ==
    /\ ~alert_active
    /\ Current.is_anomaly
    /\ RunBack(Rows, pos, TRUE) >= CONSECUTIVE_MINUTES_THRESHOLD

ResolveDue ==
    /\ alert_active
    /\ ~Current.is_anomaly
    /\ RunBack(Rows, pos, FALSE) >= CONSECUTIVE_MINUTES_THRESHOLD

\* ------------------------------------------------------------------- claims

\* C1 as stated: the AlertStarted and AlertResolved reports strictly
\* alternate, beginning with AlertStarted.
C1_StrictAlternation ==
    LET lc == SelectSeq(events, IsStartOrResolve)
    IN  \A k \in 1..Len(lc) :
            lc[k].kind = IF k % 2 = 1 THEN "AlertStarted" ELSE "AlertResolved"

\* C1, amended: AlertStarted is never printed while Active nor AlertResolved
\* while Inactive.  Among the reports that open or close an alert the odd ones
\* are AlertStarted and the even ones are AlertResolved or, when the resolve
\* lookup failed, the error report that closed the alert silently; the alert
\* is Active exactly when the last of them is an AlertStarted.
C1_OpenCloseAlternate ==
    LET lc == SelectSeq(events, IsOpenOrClose)
    IN  /\ \A k \in 1..Len(lc) :
              IF k % 2 = 1 THEN lc[k].kind = "AlertStarted"
              ELSE lc[k].kind \in {"AlertResolved", "ResolveError"}
        /\ pc = "loop" => (alert_active <=> Len(lc) % 2 = 1)

\* an alert started, was resolved, and a second alert started
C1_Witness ==
    KindsOf(SelectSeq(events, IsOpenOrClose))
        = <<"AlertStarted", "AlertResolved", "AlertStarted">>

\* C2 as stated: while Inactive, AlertStarted is printed (and the alert
\* becomes Active) at exactly the row that brings the anomalous run to the
\* threshold, not earlier and not later.
C2_StartsExactlyAtThreshold ==
    [][LoopStep =>
        /\ Emits("AlertStarted") <=>
              /\ ~alert_active
              /\ Current.is_anomaly
              /\ RunBack(Rows, pos, TRUE) = CONSECUTIVE_MINUTES_THRESHOLD
        /\ Emits("AlertStarted") => alert_active']_vars

\* C2, amended: AlertStarted is printed at a row exactly when the alert is
\* Inactive, the row is anomalous, the anomalous run ending there has reached
\* the threshold and the row's timestamp occurs once in the table (the index
\* lookup succeeds); the alert is then Active.  It is printed later than the
\* threshold row only after the lookup failed at the row before, and never
\* for a run shorter than the threshold.
C2_StartsWhenDueAndFound ==
    [][LoopStep =>
        /\ Emits("AlertStarted") <=> (StartDue /\ TimeOnce(Rows, pos))
        /\ Emits("AlertStarted") => alert_active'
        /\ (Emits("AlertStarted")
              /\ RunBack(Rows, pos, TRUE) > CONSECUTIVE_MINUTES_THRESHOLD)
           => ~TimeOnce(Rows, pos - 1)
        /\ (StartDue /\ ~TimeOnce(Rows, pos))
           => (Emits("StartError") /\ ~alert_active')]_vars

\* the first threshold-many rows are anomalous and the alert started there
C2_Witness ==
    /\ pc = "loop"
    /\ pos = CONSECUTIVE_MINUTES_THRESHOLD
    /\ RunBack(Rows, pos - 1, TRUE) = CONSECUTIVE_MINUTES_THRESHOLD
    /\ alert_active
    /\ KindsOf(events) = <<"AlertStarted">>

\* what C3 says of every AlertStarted, but for the first point of the streak
StartReportsBackRow(e) ==
    LET i == PosOf(Rows, e.detected_at)
        b == i - (CONSECUTIVE_MINUTES_THRESHOLD - 1)
    IN  /\ TimeOnce(Rows, i)
        /\ b >= 0
        /\ e.estimate = Rows[b + 1].time
        /\ e.type = Rows[b + 1].anomaly_type
        /\ e.type \in {"Zero", "Low", "High"}
        /\ \A q \in b..i : Rows[q + 1].is_anomaly

\* C3 as stated: every AlertStarted reports the time and type of the row
\* threshold - 1 positions back, which is the first point of the anomalous
\* streak.
C3_StartIsFirstOfStreak ==
    \A k \in 1..Len(events) :
        events[k].kind = "AlertStarted" =>
            /\ StartReportsBackRow(events[k])
            /\ RunBack(Rows, PosOf(Rows, events[k].detected_at), TRUE)
                  = CONSECUTIVE_MINUTES_THRESHOLD

\* C3, amended: every AlertStarted reports the time and the anomaly type
\* (never Normal) of the row threshold - 1 positions back, and all rows from
\* there to the current one are anomalous; that row is the first point of the
\* anomalous streak unless the start lookup failed at the row before the
\* current one, in which case the streak began earlier.
C3_StartIsBackRow ==
    \A k \in 1..Len(events) :
        events[k].kind = "AlertStarted" =>
            LET i == PosOf(Rows, events[k].detected_at)
            IN  /\ StartReportsBackRow(events[k])
                /\ RunBack(Rows, i, TRUE) # CONSECUTIVE_MINUTES_THRESHOLD
                   => ~TimeOnce(Rows, i - 1)

\* an alert started whose reported type is not the type of the detecting row
C3_Witness ==
    \E k \in 1..Len(events) :
        /\ events[k].kind = "AlertStarted"
        /\ events[k].type # Rows[PosOf(Rows, events[k].detected_at) + 1].anomaly_type
        /\ events[k].estimate # events[k].detected_at

\* C4 as stated: while Active, AlertResolved is printed (and the alert
\* becomes Inactive) at exactly the row that completes threshold-many
\* consecutive normal rows, with the time of the first row of that normal
\* streak as the estimate; an anomalous row sets normal_streak to 0 and
\* leaves the alert Active.
C4_ResolvesExactlyAtThreshold ==
    [][(LoopStep /\ alert_active) =>
        /\ Emits("AlertResolved") <=> ResolveDue
        /\ Emits("AlertResolved") =>
              /\ ~alert_active'
              /\ RunBack(Rows, pos, FALSE) = CONSECUTIVE_MINUTES_THRESHOLD
              /\ LastReport.estimate
                    = Rows[pos - (CONSECUTIVE_MINUTES_THRESHOLD - 1) + 1].time
        /\ Current.is_anomaly => (normal_streak' = 0 /\ alert_active')]_vars

\* C4, amended: while Active, AlertResolved is printed at exactly the row
\* that completes threshold-many consecutive normal rows, provided that row's
\* timestamp occurs once in the table, with the time of the first row of the
\* normal streak as the estimate; when the lookup fails there, the error is
\* reported instead.  Either way the alert is Inactive after that row and
\* Active after every other row; an anomalous row sets normal_streak to 0.
C4_ResolvesWhenDueAndFound ==
    [][(LoopStep /\ alert_active) =>
        /\ Emits("AlertResolved") <=> (ResolveDue /\ TimeOnce(Rows, pos))
        /\ Emits("AlertResolved") =>
              /\ RunBack(Rows, pos, FALSE) = CONSECUTIVE_MINUTES_THRESHOLD
              /\ LastReport.estimate
                    = Rows[pos - (CONSECUTIVE_MINUTES_THRESHOLD - 1) + 1].time
        /\ (ResolveDue /\ ~TimeOnce(Rows, pos)) => Emits("ResolveError")
        /\ alert_active' <=> ~ResolveDue
        /\ Current.is_anomaly => normal_streak' = 0]_vars

\* an alert was resolved by threshold-many normal rows, and the estimate is
\* the first of them
C4_Witness ==
    /\ pc = "loop"
    /\ pos >= 2 * CONSECUTIVE_MINUTES_THRESHOLD
    /\ ~alert_active
    /\ Len(events) >= 2
    /\ events[Len(events)].kind = "AlertResolved"
    /\ events[Len(events)].detected_at = Rows[pos].time
    /\ events[Len(events)].estimate
          = Rows[pos - (CONSECUTIVE_MINUTES_THRESHOLD - 1)].time

\* C5: every AlertResolved reports as original start and type the estimated
\* start and type of the latest AlertStarted before it; and once the loop's
\* locals are set, alert_start_timestamp and initial_anomaly_type are both
\* unset while the alert is Inactive and both set while it is Active.
C5_StartInfoFollowsAlert ==
    /\ \A k \in 1..Len(events) :
          events[k].kind = "AlertResolved" =>
             \E j \in 1..(k - 1) :
                /\ events[j].kind = "AlertStarted"
                /\ \A m \in (j + 1)..(k - 1) : events[m].kind # "AlertStarted"
                /\ events[k].start = events[j].estimate
                /\ events[k].type = events[j].type
    /\ IF alert_active
       THEN alert_start_timestamp # NoTime /\ initial_anomaly_type # NoType
       ELSE alert_start_timestamp = NoTime /\ initial_anomaly_type = NoType

\* the run is over, an alert was resolved and the start info is cleared
C5_Witness ==
    /\ pc = "done"
    /\ \E k \in 1..Len(events) : events[k].kind = "AlertResolved"
    /\ ~alert_active
    /\ alert_start_timestamp = NoTime

\* C6: AlertStillActive is printed only when the rows are exhausted, once,
\* as the last report, and exactly when the alert is Active then; it carries
\* the stored start time and type, and no AlertResolved follows the start of
\* that alert.
C6_StillActiveAtEnd ==
    LET still == {k \in 1..Len(events) : events[k].kind = "AlertStillActive"}
    IN  /\ pc # "done" => still = {}
        /\ (pc = "done" /\ ~alert_active) => still = {}
        /\ (pc = "done" /\ alert_active) =>
              /\ still = {Len(events)}
              /\ events[Len(events)].start = alert_start_timestamp
              /\ events[Len(events)].type = initial_anomaly_type
              /\ \E j \in 1..(Len(events) - 1) :
                    /\ events[j].kind = "AlertStarted"
                    /\ events[j].estimate = alert_start_timestamp
                    /\ \A m \in (j + 1)..(Len(events) - 1) :
                          events[m].kind \notin {"AlertStarted", "AlertResolved"}

\* the rows ran out during an alert
C6_Witness ==
    /\ pc = "done"
    /\ alert_active
    /\ events # <<>>
    /\ events[Len(events)].kind = "AlertStillActive"
    /\ events[Len(events)].start = alert_start_timestamp

\* C7: when the index lookup fails at a row where a start or a resolve is
\* due, the error is reported, the alert is Inactive with start time and type
\* unset after that row, the streak counters still are the lengths of the
\* anomalous and the normal run ending at that row, and the loop goes on to
\* the next row; the loop ends only when every row has been processed.
C7_LookupFailureResets ==
    [][/\ (LoopStep /\ (StartDue \/ ResolveDue) /\ ~TimeOnce(Rows, pos)) =>
            /\ Emits("StartError") \/ Emits("ResolveError")
            /\ ~alert_active'
            /\ alert_start_timestamp' = NoTime
            /\ initial_anomaly_type' = NoType
            /\ anomaly_streak' = RunBack(Rows, pos, TRUE)
            /\ normal_streak' = RunBack(Rows, pos, FALSE)
       /\ (pc = "loop" /\ pos < Len(Rows)) => LoopStep
       /\ (pc = "loop" /\ pc' = "done") => pos = Len(Rows)]_vars

\* a lookup failed and a later row started an alert
C7_Witness ==
    \E k \in 1..(Len(events) - 1) :
        /\ events[k].kind \in {"StartError", "ResolveError"}
        /\ events[k + 1].kind = "AlertStarted"
        /\ events[k + 1].detected_at > events[k].detected_at + 1

\* the deviation and zero tests, read off the columns of a verdict row
RowBelow(r) == FloatLess(FloatOfDecimal(r.measurement_value), r.lower_bound)

RowAbove(r) == FloatLess(r.upper_bound, FloatOfDecimal(r.measurement_value))

RowDeviates(r) ==
    /\ RowBelow(r) \/ RowAbove(r)
    /\ FloatLess(FloatOfDecimal(STD_DEV_EPSILON), r.std)

RowIsZero(r) ==
    /\ r.measurement_value = 0
    /\ ~FloatLess(r.mean, FloatOfInt(BASELINE_ZERO_THRESHOLD))

\* C8: every verdict row has the type of highest priority that applies, Zero
\* before Low before High before Normal, and is Normal exactly when it is not
\* flagged as an anomaly.
C8_TypePriority ==
    \A p \in 1..Len(Rows) :
        LET r == Rows[p]
        IN  /\ r.anomaly_type =
                  IF RowIsZero(r) THEN "Zero"
                  ELSE IF RowDeviates(r) /\ RowBelow(r)
                       THEN "Low"
                  ELSE IF RowDeviates(r) /\ RowAbove(r)
                       THEN "High"
                  ELSE "Normal"
            /\ r.is_anomaly <=> (RowIsZero(r) \/ RowDeviates(r))
            /\ r.anomaly_type = "Normal" <=> ~r.is_anomaly

\* a zero reading that is also a deviation below the lower bound is Zero
C8_Witness ==
    \E p \in 1..Len(Rows) :
        /\ RowIsZero(Rows[p])
        /\ RowDeviates(Rows[p])
        /\ RowBelow(Rows[p])
        /\ Rows[p].anomaly_type = "Zero"

\* the bucket of verdict row r has no row in the statistics table
BucketAbsent(r) ==
    \A s \in baseline_stats.table : s.minute_of_week # MinuteOfWeek(r.time)

\* C9: a verdict row whose bucket is absent from the baseline statistics has
\* mean, std and both bounds 0, and when its value is not zero it is not an
\* anomaly and its type is Normal.
C9_AbsentBucketIsNormal ==
    \A p \in 1..Len(Rows) :
        BucketAbsent(Rows[p]) =>
            /\ Rows[p].mean = FloatOfInt(0) /\ Rows[p].std = FloatOfInt(0)
            /\ Rows[p].lower_bound = FloatOfInt(0)
            /\ Rows[p].upper_bound = FloatOfInt(0)
            /\ Rows[p].measurement_value # 0 =>
                  (~Rows[p].is_anomaly /\ Rows[p].anomaly_type = "Normal")

\* a non-zero reading in a bucket the non-empty table lacks was classified
C9_Witness ==
    \E p \in 1..Len(Rows) :
        /\ baseline_stats.table # {}
        /\ BucketAbsent(Rows[p])
        /\ Rows[p].measurement_value > 0
        /\ Rows[p].anomaly_type = "Normal"

\* C10: once calculate_baseline_stats has run on a baseline without rows it
\* has failed: main holds no statistics table and has returned.
C10_EmptyBaselineFails ==
    (/\ pc \notin {"load_baseline", "calc_stats"}
     /\ ~baseline_df.isNone
     /\ baseline_df.rows = <<>>)
    => (baseline_stats.isNone /\ pc = "done")

====
